---- MODULE Spec2Model ----
(***************************************************************************)
(* Model of aurimyth.foundation_kit.common.logging: the context store      *)
(* (service context and trace id, one value per execution context), the    *)
(* sink registry kept by setup_logging / register_log_sink, and the        *)
(* dispatch of a record through the patcher and the sink filters.          *)
(*                                                                         *)
(* Python strings that the code converts (strip, lower, upper) are tuples  *)
(* of one-character strings, so the conversions are computed.  Values that *)
(* the code only compares (file-name parts, filter keys, level names of a  *)
(* record) are TLA+ strings.                                               *)
(***************************************************************************)
EXTENDS Integers, Sequences, FiniteSets, TLC

VARIABLES
    handlers,         \* loguru's handler table, in order of logger.add
    patcher,          \* loguru's core patcher: "none" or "stamp"
    log_config,       \* the module global _log_config
    service_context,  \* _service_context, one slot per execution context
    trace_id,         \* _trace_id_var, one slot per execution context
    started,          \* the execution contexts that exist
    uuid_count,       \* how many uuid4() values have been drawn
    setup_done,       \* whether a call of setup_logging has returned normally
    files,            \* the log files and the sinks' write queues, where followed
    run,              \* the calls in progress, where they are taken step by step
    last              \* the operation just performed, with its outcome

vars == <<handlers, patcher, log_config, service_context, trace_id, started,
          uuid_count, setup_done, files, run, last>>

ctxVars  == <<service_context, trace_id, started, uuid_count>>
sinkVars == <<handlers, patcher, log_config>>

(***************************************************************************)
(* Bounds of the model.                                                    *)
(***************************************************************************)
NTasks    == 2      \* execution contexts: 1 is the importing (main) one
MaxUuid   == 2      \* uuid4() draws
MaxCustom == 1      \* sinks added by register_log_sink between two setups
MaxPad    == 1      \* whitespace characters around a service-context string
MaxRepeat == 2      \* how far consecutive identical setup calls are counted
MaxLines  == 3      \* lines written or queued, where the files are followed
MaxCount  == 2      \* how far setup calls and log calls are counted there

Tasks == 1..NTasks

(***************************************************************************)
(* Strings as tuples of characters: str.strip, str.lower, str.upper.       *)
(***************************************************************************)
UpperLetters == <<"A","B","C","D","E","F","G","H","I","J","K","L","M",
                  "N","O","P","Q","R","S","T","U","V","W","X","Y","Z">>
LowerLetters == <<"a","b","c","d","e","f","g","h","i","j","k","l","m",
                  "n","o","p","q","r","s","t","u","v","w","x","y","z">>
Whitespace == {" ", "\t", "\n"}

IndexIn(c, letters) ==
    IF \E i \in 1..Len(letters) : letters[i] = c
    THEN CHOOSE i \in 1..Len(letters) : letters[i] = c
    ELSE 0

LowerChar(c) == IF IndexIn(c, UpperLetters) > 0
                THEN LowerLetters[IndexIn(c, UpperLetters)] ELSE c
UpperChar(c) == IF IndexIn(c, LowerLetters) > 0
                THEN UpperLetters[IndexIn(c, LowerLetters)] ELSE c

Lower(s) == [i \in 1..Len(s) |-> LowerChar(s[i])]
Upper(s) == [i \in 1..Len(s) |-> UpperChar(s[i])]

Strip(s) ==
    LET keep == {i \in 1..Len(s) : s[i] \notin Whitespace}
    IN  IF keep = {} THEN <<>>
        ELSE LET lo == CHOOSE i \in keep : \A j \in keep : i <= j
                 hi == CHOOSE i \in keep : \A j \in keep : j <= i
             IN  SubSeq(s, lo, hi)

(***************************************************************************)
(* ServiceContext(str, Enum).  A member is written as its value.           *)
(***************************************************************************)
API       == "api"
SCHEDULER == "scheduler"
WORKER    == "worker"
ServiceContext == {API, SCHEDULER, WORKER}

Chars_api       == <<"a","p","i">>
Chars_app       == <<"a","p","p">>
Chars_scheduler == <<"s","c","h","e","d","u","l","e","r">>
Chars_worker    == <<"w","o","r","k","e","r">>

\* ServiceContext(val): the member whose value is val, else ValueError.
EnumLookup(val) ==
    IF val = Chars_api THEN API
    ELSE IF val = Chars_scheduler THEN SCHEDULER
    ELSE IF val = Chars_worker THEN WORKER
    ELSE "ValueError"

\* An argument of type ServiceContext | str.
EnumArg(m) == [is_enum |-> TRUE,  member |-> m,  chars |-> <<>>]
StrArg(s)  == [is_enum |-> FALSE, member |-> "", chars |-> s]

\* _to_service_context without its except clause.
ToServiceContextNoFallback(ctx) ==
    IF ctx.is_enum THEN ctx.member
    ELSE LET val  == Lower(Strip(ctx.chars))
             val2 == IF val = Chars_app THEN Chars_api ELSE val
         IN  EnumLookup(val2)

_to_service_context(ctx) ==
    IF ctx.is_enum THEN ctx.member
    ELSE LET val  == Lower(Strip(ctx.chars))
             val2 == IF val = Chars_app THEN Chars_api ELSE val
             got  == EnumLookup(val2)
         IN  IF got = "ValueError" THEN API ELSE got

(***************************************************************************)
(* The context store.  A ContextVar holds one value per execution context; *)
(* a context with no value of its own reads the declared default.          *)
(***************************************************************************)
Unset   == "unset"
NoTrace == <<>>          \* the default "" of _trace_id_var

\* ContextVar.set written to a module global shared by every context.
GlobalSet(var, t, v) == [x \in DOMAIN var |-> v]

\* ContextVar.set: only the caller's execution context sees the value.
ContextSet(var, t, v) == [var EXCEPT ![t] = v]

get_service_context(t) ==
    IF service_context[t] = Unset THEN API ELSE service_context[t]

\* uuid.uuid4(): a value never produced before.
Uuid(n) == <<"uuid", n>>

\* get_trace_id that draws a new id on every call.
TraceIdAlwaysFresh(t) == Uuid(uuid_count + 1)

\* The value get_trace_id(t) returns in the current state.
TraceIdRead(t) ==
    IF trace_id[t] = NoTrace THEN Uuid(uuid_count + 1) ELSE trace_id[t]

\* get_trace_id draws from uuid4 only when the slot is empty.
DrawsUuid(t) == TraceIdRead(t) # trace_id[t]

\* The context-store part of a call of get_trace_id by t.
TraceIdFetched(t) ==
    /\ DrawsUuid(t) => uuid_count < MaxUuid
    /\ trace_id'   = IF DrawsUuid(t)
                     THEN ContextSet(trace_id, t, TraceIdRead(t)) ELSE trace_id
    /\ uuid_count' = IF DrawsUuid(t) THEN uuid_count + 1 ELSE uuid_count

NoArg    == [is_enum |-> FALSE, member |-> "none", chars |-> <<>>]

\* str | None
None_   == [none |-> TRUE,  chars |-> <<>>]
Str(c)  == [none |-> FALSE, chars |-> c]
Truthy(x) == ~ x.none /\ x.chars # <<>>

\* The command line and prompt answers of an init run, and what it generated.
NoCmd == [package_name |-> None_, no_interactive |-> FALSE, with_docker |-> FALSE,
          package_input |-> <<>>, docker_answer |-> FALSE, confirmed |-> FALSE,
          has_pyproject |-> FALSE]
NoScaffold == [package |-> None_, config_py |-> None_, saved |-> None_, docker |-> FALSE]
NoRecord == [level |-> "none", no |-> 0, bound |-> <<>>, extra |-> <<>>]

\* A log call as its caller makes it: a level and the attributes bound to it.
Sent(lvl, bound) == [level |-> lvl, bound |-> bound]
NoCall == Sent("none", <<>>)

\* What is remembered of the operation just performed: its name, caller and
\* outcome; the other fields are filled in by the operations they belong to.
Op(op, t, res) ==
    [op |-> op, task |-> t, res |-> res, arg |-> NoArg, val |-> NoTrace,
     sent |-> NoCall, rec |-> NoRecord, acc |-> {}, level |-> 0, console |-> FALSE,
     dated |-> FALSE, repeat |-> 0, did |-> "none", logs |-> <<>>,
     cmd |-> NoCmd, scaffold |-> NoScaffold]

SetServiceContext(t, arg) ==
    /\ t \in started
    /\ UNCHANGED run
    /\ service_context' = ContextSet(service_context, t, _to_service_context(arg))
    /\ last' = [Op("set_service_context", t, "ok") EXCEPT !.arg = arg]
    /\ UNCHANGED <<sinkVars, setup_done, files, trace_id, started, uuid_count>>

GetTraceId(t) ==
    /\ t \in started
    /\ UNCHANGED run
    /\ TraceIdFetched(t)
    /\ last' = [Op("get_trace_id", t, "ok") EXCEPT !.val = TraceIdRead(t)]
    /\ UNCHANGED <<sinkVars, setup_done, files, service_context, started>>

SetTraceId(t, id) ==
    /\ t \in started
    /\ UNCHANGED run
    /\ trace_id' = ContextSet(trace_id, t, id)
    /\ last' = [Op("set_trace_id", t, "ok") EXCEPT !.val = id]
    /\ UNCHANGED <<sinkVars, setup_done, files, service_context, started, uuid_count>>

\* A new execution context: an asyncio task starts from a copy of its
\* creator's context, a thread from an empty one.
Spawn(parent, child, copies) ==
    /\ parent \in started
    /\ UNCHANGED run
    /\ child \in Tasks \ started
    /\ started' = started \cup {child}
    /\ service_context' = [service_context EXCEPT ![child] =
                              IF copies THEN service_context[parent] ELSE Unset]
    /\ trace_id' = [trace_id EXCEPT ![child] =
                              IF copies THEN trace_id[parent] ELSE NoTrace]
    /\ last' = Op("spawn", child, "ok")
    /\ UNCHANGED <<sinkVars, setup_done, files, uuid_count>>

(***************************************************************************)
(* loguru levels, and the records the sinks are described by.              *)
(***************************************************************************)
LevelTable ==
    << [name |-> "TRACE",    no |-> 5,  chars |-> <<"T","R","A","C","E">>],
       [name |-> "DEBUG",    no |-> 10, chars |-> <<"D","E","B","U","G">>],
       [name |-> "INFO",     no |-> 20, chars |-> <<"I","N","F","O">>],
       [name |-> "SUCCESS",  no |-> 25, chars |-> <<"S","U","C","C","E","S","S">>],
       [name |-> "WARNING",  no |-> 30, chars |-> <<"W","A","R","N","I","N","G">>],
       [name |-> "ERROR",    no |-> 40, chars |-> <<"E","R","R","O","R">>],
       [name |-> "CRITICAL", no |-> 50, chars |-> <<"C","R","I","T","I","C","A","L">>] >>

LevelNames == {LevelTable[i].name : i \in 1..Len(LevelTable)}

\* The severity number of a level given by name.
LevelNo(name) ==
    LevelTable[CHOOSE i \in 1..Len(LevelTable) : LevelTable[i].name = name].no

\* logger.add(level=<str>): the level must exist, else ValueError.
LevelExists(chars) == \E i \in 1..Len(LevelTable) : LevelTable[i].chars = chars
LevelNoOf(chars) ==
    LevelTable[CHOOSE i \in 1..Len(LevelTable) : LevelTable[i].chars = chars].no

NoFilter        == [kind |-> "none",  c |-> "", key |-> ""]
InfoFilter(c)   == [kind |-> "info",  c |-> c,  key |-> ""]
ErrorFilter(c)  == [kind |-> "error", c |-> c,  key |-> ""]
KeyFilter(key)  == [kind |-> "key",   c |-> "", key |-> key]

\* dict.get(key, default) on the extra attributes of a record.
ExtraGet(extra, key, default) ==
    IF key \in DOMAIN extra THEN extra[key] ELSE default

\* The INFO-tier predicate without its level clause.
InfoFilterAcceptsAnyLevel(c, rec) ==
    /\ ExtraGet(rec.extra, "service", "None") = c
    /\ ~ ExtraGet(rec.extra, "access", FALSE)

\* The INFO-tier predicate without its access clause.
InfoFilterAcceptsAccess(c, rec) ==
    /\ ExtraGet(rec.extra, "service", "None") = c
    /\ rec.level \notin {"ERROR", "CRITICAL"}

\* lambda record, c=ctx of the INFO-tier file sinks.
InfoFilterAccepts(c, rec) ==
    /\ ExtraGet(rec.extra, "service", "None") = c
    /\ rec.level \notin {"ERROR", "CRITICAL"}
    /\ ~ ExtraGet(rec.extra, "access", FALSE)

\* lambda record, c=ctx of the ERROR-tier file sinks.
ErrorFilterAccepts(c, rec) == ExtraGet(rec.extra, "service", "None") = c

\* A sink_filter that asks whether the key is there, not what it holds.
KeyFilterPresence(key, rec) == key \in DOMAIN rec.extra

\* sink_filter(record, key=filter_key) of register_log_sink.
KeyFilterAccepts(key, rec) == ExtraGet(rec.extra, key, FALSE)

FilterAccepts(f, rec) ==
    CASE f.kind = "none"  -> TRUE
      [] f.kind = "info"  -> InfoFilterAccepts(f.c, rec)
      [] f.kind = "error" -> ErrorFilterAccepts(f.c, rec)
      [] f.kind = "key"   -> KeyFilterAccepts(f.key, rec)

ConsoleSink(levelno) ==
    [sink |-> "console", dir |-> "", prefix |-> "", tier |-> "", dated |-> FALSE,
     levelno |-> levelno, filter |-> NoFilter, format |-> "console_format",
     rotation |-> "", retention |-> 0, enqueue |-> FALSE, delay |-> FALSE]

FileSink(dir, prefix, tier, dated, levelno, filter, format, rotation, retention, delay) ==
    [sink |-> "file", dir |-> dir, prefix |-> prefix, tier |-> tier, dated |-> dated,
     levelno |-> levelno, filter |-> filter, format |-> format,
     rotation |-> rotation, retention |-> retention, enqueue |-> TRUE, delay |-> delay]

(***************************************************************************)
(* Emission: loguru drops a record when there is no handler or when its    *)
(* level is below every handler's; otherwise the patcher runs once, then   *)
(* each handler checks its level and then its filter.                      *)
(***************************************************************************)
MinLevel(H) ==
    LET nos == {H[i].levelno : i \in 1..Len(H)}
    IN  CHOOSE n \in nos : \A m \in nos : n <= m

Reaches(H, lvl) == H # <<>> /\ LevelNo(lvl) >= MinLevel(H)

\* A patcher written with setdefault: what the caller bound is kept.
StampKeepingBound(extra, tid, svc) ==
    [k \in DOMAIN extra \cup {"trace_id", "service"} |->
        IF k \in DOMAIN extra THEN extra[k]
        ELSE IF k = "trace_id" THEN tid ELSE svc]

\* The patcher: record["extra"].update({"trace_id": ..., "service": ...}).
Stamp(extra, tid, svc) ==
    [k \in DOMAIN extra \cup {"trace_id", "service"} |->
        IF k = "trace_id" THEN tid
        ELSE IF k = "service" THEN svc
        ELSE extra[k]]

\* The record as the handlers see it.
RecordOf(P, lvl, bound, tid, svc) ==
    [level |-> lvl, no |-> LevelNo(lvl), bound |-> bound,
     extra |-> IF P = "stamp" THEN Stamp(bound, tid, svc) ELSE bound]

\* The handlers (by position) that write the record.
Accepting(H, rec) ==
    {i \in 1..Len(H) : H[i].levelno <= rec.no /\ FilterAccepts(H[i].filter, rec)}

\* A log call by t at level lvl with the extra attributes `bound`, against the
\* handlers H and patcher P, the caller's service context being svc.
EmitRec(t, H, P, lvl, bound, svc) ==
    IF Reaches(H, lvl) THEN RecordOf(P, lvl, bound, TraceIdRead(t), svc)
    ELSE NoRecord

EmitAcc(t, H, P, lvl, bound, svc) ==
    IF Reaches(H, lvl) THEN Accepting(H, EmitRec(t, H, P, lvl, bound, svc))
    ELSE {}

\* The patcher calls get_trace_id, which may fill the caller's slot.
EmitCtx(t, H, P, lvl) ==
    IF Reaches(H, lvl) /\ P = "stamp"
    THEN TraceIdFetched(t)
    ELSE UNCHANGED <<trace_id, uuid_count>>

(***************************************************************************)
(* The log files.  A file sink is added with enqueue=True: a record it     *)
(* accepts is put on the sink's queue, and the sink's writer thread        *)
(* appends the queued lines to the file, opening it first when the sink    *)
(* was added with delay=True.  A sink added without delay opens its file   *)
(* (creating it when missing) while it is added, and removing a sink       *)
(* writes out what is left on its queue.  The files are followed only      *)
(* where files.watched holds, together with the number of completed setup  *)
(* calls and of log calls; nothing the program does depends on them.       *)
(***************************************************************************)
Unwatched == [watched |-> FALSE, at |-> <<>>, queue |-> <<>>, setups |-> 0, logs |-> 0]
Watched   == [watched |-> TRUE,  at |-> <<>>, queue |-> <<>>, setups |-> 0, logs |-> 0]

\* The calls made since the directory was empty are counted up to MaxCount.
Counted(n) == IF n < MaxCount THEN n + 1 ELSE MaxCount

\* The path a file sink writes to: {prefix}_{tier}[_{date}].log under dir.
Path(h) == [dir |-> h.dir, prefix |-> h.prefix, tier |-> h.tier, dated |-> h.dated]

\* A written line: which call logged it, its level and the trace id it shows.
Line(op, rec) ==
    [msg |-> op, level |-> rec.level, trace_id |-> ExtraGet(rec.extra, "trace_id", NoTrace)]

\* open(path, "a"): a missing file is created empty, an existing one is kept.
Opened(at, p) == IF p \in DOMAIN at THEN at ELSE (p :> <<>>) @@ at

Appended(at, p, line) == [Opened(at, p) EXCEPT ![p] = Append(@, line)]

RECURSIVE WriteAll(_, _, _)
WriteAll(at, p, lines) ==
    IF lines = <<>> THEN at
    ELSE WriteAll(Appended(at, p, Head(lines)), p, Tail(lines))

\* logger.remove(): each sink is stopped after its queue has been written.
RECURSIVE Drained(_, _, _, _)
Drained(at, H, Q, i) ==
    IF i > Len(H) THEN at
    ELSE Drained(WriteAll(at, Path(H[i]), Q[i]), H, Q, i + 1)

\* Every file sink added as if with delay=True.
NeverOpensOnAdd(h) == FALSE

\* Every file sink added as if without delay.
AlwaysOpensOnAdd(h) == h.sink = "file"

\* logger.add(path, delay=...): without delay the file is opened at once.
OpensOnAdd(h) == h.sink = "file" /\ ~ h.delay

\* The files after the sinks H[i..] have been added.
RECURSIVE Created(_, _, _)
Created(at, H, i) ==
    IF i > Len(H) THEN at
    ELSE Created(IF OpensOnAdd(H[i]) THEN Opened(at, Path(H[i])) ELSE at, H, i + 1)

\* The queues after the file sinks among acc took the line.
Enqueued(Q, H, acc, line) ==
    [i \in 1..Len(H) |->
        IF i \in acc /\ H[i].sink = "file" THEN Append(Q[i], line) ELSE Q[i]]

NoQueues(H) == [i \in 1..Len(H) |-> <<>>]

\* The files after a log call that the handlers acc accepted.
Logged(F, H, acc, line) ==
    IF F.watched THEN [F EXCEPT !.queue = Enqueued(F.queue, H, acc, line)] ELSE F

\* A writer thread takes the next line of its queue and appends it.
WriterStep(i) ==
    /\ files.watched
    /\ UNCHANGED run
    /\ i \in 1..Len(handlers)
    /\ files.queue[i] # <<>>
    /\ files' = [files EXCEPT
                    !.at = Appended(@, Path(handlers[i]), Head(files.queue[i])),
                    !.queue[i] = Tail(@)]
    /\ UNCHANGED <<sinkVars, ctxVars, setup_done, last>>

Emit(t, lvl, bound) ==
    LET rec == EmitRec(t, handlers, patcher, lvl, bound, get_service_context(t))
        acc == EmitAcc(t, handlers, patcher, lvl, bound, get_service_context(t))
    IN
    /\ t \in started
    /\ UNCHANGED run
    /\ EmitCtx(t, handlers, patcher, lvl)
    /\ files' = Logged([files EXCEPT !.logs = IF files.watched THEN Counted(@) ELSE @],
                       handlers, acc, Line("log", rec))
    /\ last' = [Op("log", t, "ok") EXCEPT
                  !.sent = Sent(lvl, bound), !.rec = rec, !.acc = acc]
    /\ UNCHANGED <<sinkVars, setup_done, service_context, started>>

(***************************************************************************)
(* log_performance and log_exceptions.  Both wrappers are coroutines that  *)
(* await the wrapped call inside try / except Exception.  What the         *)
(* wrapped function does is "return", "Exception" (it raises an instance   *)
(* of Exception) or "BaseException" (it raises one that is not, such as    *)
(* asyncio.CancelledError or KeyboardInterrupt).                           *)
(***************************************************************************)
\* await func(...): awaiting what a plain function returned raises TypeError.
Awaited(is_coroutine, did) ==
    IF did = "return" /\ ~ is_coroutine THEN "TypeError" ELSE did

\* except Exception as exc
Caught(out) == out \in {"Exception", "TypeError"}

\* A handler that ends without raise: the caller gets None.
Swallowed(out) == "return"

\* raise (bare): the exception being handled goes on to the caller.
Reraised(out) == out

\* The levels of the log calls the wrapper makes, in order.
WrapperLogs(deco, out, slow) ==
    IF Caught(out) THEN <<"ERROR">>
    ELSE IF out = "return" /\ deco = "log_performance"
         THEN <<IF slow THEN "WARNING" ELSE "DEBUG">>
         ELSE <<>>

\* What the caller of the wrapper gets.
WrapperResult(out) == IF Caught(out) THEN Reraised(out) ELSE out

\* A call of a function wrapped by deco, made by t; slow: it took longer than
\* the threshold of log_performance.
Wrapped(t, deco, is_coroutine, did, slow) ==
    LET out  == Awaited(is_coroutine, did)
        logs == WrapperLogs(deco, out, slow)
        op   == [Op(deco, t, WrapperResult(out)) EXCEPT !.did = did, !.logs = logs]
    IN
    /\ t \in started
    /\ UNCHANGED run
    /\ IF logs = <<>>
       THEN /\ last' = op
            /\ UNCHANGED <<trace_id, uuid_count, files>>
       ELSE LET lvl == logs[1]
                rec == EmitRec(t, handlers, patcher, lvl, <<>>, get_service_context(t))
                acc == EmitAcc(t, handlers, patcher, lvl, <<>>, get_service_context(t))
            IN  /\ EmitCtx(t, handlers, patcher, lvl)
                /\ files' = Logged([files EXCEPT
                                       !.logs = IF files.watched THEN Counted(@) ELSE @],
                                   handlers, acc, Line(deco, rec))
                /\ last' = [op EXCEPT !.sent = Sent(lvl, <<>>), !.rec = rec, !.acc = acc]
    /\ UNCHANGED <<sinkVars, setup_done, service_context, started>>

(***************************************************************************)
(* setup_logging and register_log_sink.                                    *)
(***************************************************************************)
DefaultConfig ==
    [log_dir |-> "logs", rotation |-> "00:00", retention_days |-> 7,
     file_format |-> "", initialized |-> FALSE]

\* setup_logging that forgets logger.remove().
NotRemoved(H) == H

\* A logger.remove() that spares the sinks added by register_log_sink.
RemovedSetupSinks(H) == SelectSeq(H, LAMBDA h : h.sink = "file" /\ h.tier = "custom")

\* logger.remove(): no handler is left.
Removed(H) == <<>>

\* Only the primary context gets files.
PrimaryContextOnly(enum) == <<enum>>

\* contexts_to_create: the primary context, and scheduler in API mode.
ContextsToCreate(enum) ==
    IF enum = API THEN <<enum, SCHEDULER>> ELSE <<enum>>

\* A lambda that reads the loop variable when called: after the loop it is
\* the last context for every filter.
LateBound(contexts, i) == contexts[Len(contexts)]

\* c=ctx: the default argument is bound when the lambda is created.
Captured(contexts, i) == contexts[i]

\* A loop that gives the ERROR-tier sinks the configured level too.
SetupFileSinksOneLevel(contexts, levelno, dir, dated, rotation, retention) ==
    [k \in 1..(2 * Len(contexts)) |->
        LET i == (k + 1) \div 2
        IN  FileSink(dir, contexts[i], IF k % 2 = 1 THEN "info" ELSE "error", dated,
                     levelno,
                     IF k % 2 = 1 THEN InfoFilter(Captured(contexts, i))
                     ELSE ErrorFilter(Captured(contexts, i)),
                     "file_format", rotation, retention, FALSE)]

\* The file sinks added by the loop over contexts_to_create, in order.
SetupFileSinks(contexts, levelno, dir, dated, rotation, retention) ==
    [k \in 1..(2 * Len(contexts)) |->
        LET i == (k + 1) \div 2
        IN  IF k % 2 = 1
            THEN FileSink(dir, contexts[i], "info", dated, levelno,
                          InfoFilter(Captured(contexts, i)), "file_format",
                          rotation, retention, FALSE)
            ELSE FileSink(dir, contexts[i], "error", dated, LevelNo("ERROR"),
                          ErrorFilter(Captured(contexts, i)), "file_format",
                          rotation, retention, FALSE)]

\* Every sink a successful setup_logging adds, in order.
SetupSinks(enum, levelno, dir, dated, rotation, retention, console) ==
    (IF console THEN <<ConsoleSink(levelno)>> ELSE <<>>)
    \o SetupFileSinks(ContextsToCreate(enum), levelno, dir, dated, rotation, retention)

\* The count of consecutive successful setup calls with these parameters.
Repeat(arg, levelno, dir, dated, console) ==
    IF /\ last.op = "setup_logging" /\ last.res = "ok"
       /\ last.arg = arg /\ last.level = levelno /\ last.dated = dated
       /\ last.console = console /\ log_config.log_dir = dir
    THEN IF last.repeat < MaxRepeat THEN last.repeat + 1 ELSE MaxRepeat
    ELSE 1

\* logger.remove() moved in front of os.makedirs.
RemovedBeforeMakedirs(H) == <<>>

\* The sinks when os.makedirs raises: the statements before it touch none.
BeforeMakedirs(H) == H

Setup(t, level_arg, dir_arg, service_arg, rotation_on, console, mkdir_ok) ==
    LET log_level == Upper(level_arg)
        log_dir   == IF dir_arg = "" THEN "logs" ELSE dir_arg
        rotation  == IF rotation_on THEN "00:00" ELSE "100 MB"
        enum      == _to_service_context(service_arg)
        config    == [log_config EXCEPT !.log_dir = log_dir, !.rotation = rotation,
                         !.retention_days = 7, !.initialized = TRUE,
                         !.file_format = "file_format"]
        H         == Removed(handlers)
                     \o SetupSinks(enum, LevelNoOf(log_level), log_dir, rotation_on,
                                   rotation, 7, console)
        rec       == EmitRec(t, H, "stamp", "INFO", <<>>, enum)
        acc       == EmitAcc(t, H, "stamp", "INFO", <<>>, enum)
        \* the files once logger.remove() has stopped the old sinks
        stopped   == Drained(files.at, handlers, files.queue, 1)
        \* the file sink whose logger.add is the first call when there is no console
        first     == [sink |-> "file", dir |-> log_dir, prefix |-> enum, tier |-> "info",
                      dated |-> rotation_on, delay |-> FALSE]
    IN
    /\ t \in started
    /\ UNCHANGED run
    /\ IF ~ mkdir_ok
       THEN \* os.makedirs raises before anything is touched
            /\ handlers' = BeforeMakedirs(handlers)
            /\ last' = [Op("setup_logging", t, "OSError") EXCEPT !.arg = service_arg]
            /\ UNCHANGED <<patcher, log_config, ctxVars, setup_done, files>>
       ELSE IF ~ LevelExists(log_level)
       THEN \* the first logger.add raises ValueError: no sink is installed
            /\ handlers' = Removed(handlers)
            /\ log_config' = config
            /\ patcher' = "stamp"
            /\ service_context' = ContextSet(service_context, t, enum)
            \* a file sink opens its file before logger.add looks the level up
            /\ files' = IF files.watched
                         THEN [files EXCEPT
                                 !.at = IF console THEN stopped
                                        ELSE Created(stopped, <<first>>, 1),
                                 !.queue = <<>>]
                         ELSE files
            /\ last' = [Op("setup_logging", t, "ValueError") EXCEPT !.arg = service_arg]
            /\ UNCHANGED <<trace_id, uuid_count, started, setup_done>>
       ELSE /\ handlers' = H
            /\ log_config' = config
            /\ patcher' = "stamp"
            /\ service_context' = ContextSet(service_context, t, enum)
            /\ setup_done' = TRUE
            \* logger.info("... initialised ...") at the end of the call
            /\ EmitCtx(t, H, "stamp", "INFO")
            /\ files' = IF files.watched
                         THEN Logged([files EXCEPT !.at = Created(stopped, H, 1),
                                                   !.queue = NoQueues(H),
                                                   !.setups = Counted(@)],
                                     H, acc, Line("setup_logging", rec))
                         ELSE files
            /\ last' = [Op("setup_logging", t, "ok") EXCEPT
                          !.arg = service_arg,
                          !.level = LevelNoOf(log_level),
                          !.console = console,
                          !.dated = rotation_on,
                          !.repeat = Repeat(service_arg, LevelNoOf(log_level),
                                            log_dir, rotation_on, console),
                          !.sent = Sent("INFO", <<>>),
                          !.rec = rec,
                          !.acc = acc]
            /\ UNCHANGED started

\* A register_log_sink without its precondition.
NeverRefuses(config) == FALSE

\* if not _log_config["initialized"]: raise RuntimeError
NotInitialized(config) == ~ config.initialized

CustomSinks(H) == {i \in 1..Len(H) : H[i].sink = "file" /\ H[i].tier = "custom"}

Register(t, name, filter_key, level) ==
    LET filter == IF filter_key # "" THEN KeyFilter(filter_key) ELSE NoFilter
        H == Append(handlers,
                    FileSink(log_config.log_dir, name, "custom", TRUE, LevelNo(level),
                             filter, "default_format", log_config.rotation,
                             log_config.retention_days, TRUE))
        rec == EmitRec(t, H, patcher, "DEBUG", <<>>, get_service_context(t))
        acc == EmitAcc(t, H, patcher, "DEBUG", <<>>, get_service_context(t))
    IN
    /\ t \in started
    /\ UNCHANGED run
    /\ IF NotInitialized(log_config)
       THEN /\ last' = Op("register_log_sink", t, "RuntimeError")
            /\ UNCHANGED <<sinkVars, ctxVars, setup_done, files>>
       ELSE /\ Cardinality(CustomSinks(handlers)) < MaxCustom
            /\ handlers' = H
            \* logger.debug("... registered ...") at the end of the call
            /\ EmitCtx(t, H, patcher, "DEBUG")
            /\ files' = IF files.watched
                         THEN Logged([files EXCEPT
                                        !.at = Created(@, H, Len(H)),
                                        !.queue = Append(@, <<>>)],
                                     H, acc, Line("register_log_sink", rec))
                         ELSE files
            /\ last' = [Op("register_log_sink", t, "ok") EXCEPT
                          !.sent = Sent("DEBUG", <<>>), !.rec = rec, !.acc = acc]
            /\ UNCHANGED <<patcher, log_config, service_context, started, setup_done>>

(***************************************************************************)
(* Calls taken step by step.  setup_logging and register_log_sink are      *)
(* plain functions: one thread runs their statements in order, and other   *)
(* threads may log in between.  A log call reads the handler table to see  *)
(* whether the record can reach a sink, runs the patcher, and then reads   *)
(* the table again to dispatch; the table is replaced as a whole by every  *)
(* logger.add and by the removal of each handler.                          *)
(***************************************************************************)
IdleCfg  == [pc |-> "idle", op |-> "none", task |-> 0, old |-> <<>>, target |-> <<>>,
             k |-> 0, enum |-> "", config |-> DefaultConfig, valid |-> TRUE,
             level |-> 0, console |-> FALSE, arg |-> NoArg]
IdleEmit == [pc |-> "idle", task |-> 0, sent |-> NoCall, extra |-> <<>>]
Idle     == [cfg |-> IdleCfg, emit |-> IdleEmit]

\* setup_logging with logger.configure(patcher=...) moved behind the sinks.
PatcherAfterSinks == <<"remove", "config", "context", "add", "patcher", "log">>

\* The statements of setup_logging after os.makedirs, in order.
SetupSteps == <<"remove", "config", "context", "patcher", "add", "log">>

\* The statement after the one named pc.
After(pc) ==
    LET i == CHOOSE j \in 1..Len(SetupSteps) : SetupSteps[j] = pc
    IN  IF i < Len(SetupSteps) THEN SetupSteps[i + 1] ELSE "idle"

Running(t, res) == Op(run.cfg.op, t, res)

\* setup_logging up to and including os.makedirs, which succeeds.
BeginSetup(t, level_arg, service_arg, console) ==
    LET log_level == Upper(level_arg)
        enum      == _to_service_context(service_arg)
        valid     == LevelExists(log_level)
    IN
    /\ t \in started
    /\ run.cfg.pc = "idle"
    /\ ~ (run.emit.pc # "idle" /\ run.emit.task = t)
    /\ run' = [run EXCEPT !.cfg =
                 [pc |-> SetupSteps[1], op |-> "setup_logging", task |-> t,
                  old |-> handlers,
                  target |-> IF valid
                             THEN SetupSinks(enum, LevelNoOf(log_level), "logs", TRUE,
                                             "00:00", 7, console)
                             ELSE <<>>,
                  k |-> 1, enum |-> enum,
                  config |-> [log_config EXCEPT !.log_dir = "logs", !.rotation = "00:00",
                                 !.retention_days = 7, !.initialized = TRUE],
                  valid |-> valid,
                  level |-> IF valid THEN LevelNoOf(log_level) ELSE 0,
                  console |-> console, arg |-> service_arg]]
    /\ last' = [Op("setup_logging", t, "begin") EXCEPT !.arg = service_arg]
    /\ UNCHANGED <<sinkVars, ctxVars, setup_done, files>>

\* logger.remove(): the handlers are taken out one after the other.
StepRemove ==
    /\ run.cfg.pc = "remove"
    /\ IF handlers = <<>>
       THEN /\ run' = [run EXCEPT !.cfg.pc = After("remove")]
            /\ UNCHANGED handlers
       ELSE /\ handlers' = Tail(handlers)
            /\ UNCHANGED run
    /\ last' = Running(run.cfg.task, "remove")
    /\ UNCHANGED <<patcher, log_config, ctxVars, setup_done, files>>

\* _log_config.update({...})
StepConfig ==
    /\ run.cfg.pc = "config"
    /\ log_config' = run.cfg.config
    /\ run' = [run EXCEPT !.cfg.pc = After("config")]
    /\ last' = Running(run.cfg.task, "config")
    /\ UNCHANGED <<handlers, patcher, ctxVars, setup_done, files>>

\* set_service_context(service_type_enum)
StepContext ==
    /\ run.cfg.pc = "context"
    /\ service_context' = ContextSet(service_context, run.cfg.task, run.cfg.enum)
    /\ run' = [run EXCEPT !.cfg.pc = After("context")]
    /\ last' = Running(run.cfg.task, "context")
    /\ UNCHANGED <<sinkVars, trace_id, started, uuid_count, setup_done, files>>

\* _log_config["file_format"] = ...; logger.configure(patcher=...)
StepPatcher ==
    /\ run.cfg.pc = "patcher"
    /\ patcher' = "stamp"
    /\ log_config' = [log_config EXCEPT !.file_format = "file_format"]
    /\ run' = [run EXCEPT !.cfg.pc = After("patcher")]
    /\ last' = Running(run.cfg.task, "patcher")
    /\ UNCHANGED <<handlers, ctxVars, setup_done, files>>

\* The logger.add calls, one sink per step; the first raises ValueError when
\* the level does not exist.
StepAdd ==
    /\ run.cfg.pc = "add"
    /\ IF ~ run.cfg.valid
       THEN /\ run' = [run EXCEPT !.cfg = IdleCfg]
            /\ last' = [Op("setup_logging", run.cfg.task, "ValueError") EXCEPT
                          !.arg = run.cfg.arg]
            /\ UNCHANGED handlers
       ELSE IF run.cfg.k <= Len(run.cfg.target)
       THEN /\ handlers' = Append(handlers, run.cfg.target[run.cfg.k])
            /\ run' = [run EXCEPT !.cfg.k = @ + 1]
            /\ last' = Running(run.cfg.task, "add")
       ELSE /\ run' = [run EXCEPT !.cfg.pc = After("add")]
            /\ last' = Running(run.cfg.task, "add")
            /\ UNCHANGED handlers
    /\ UNCHANGED <<patcher, log_config, ctxVars, setup_done, files>>

\* logger.info("... initialised ...") and return.
StepLog ==
    LET t   == run.cfg.task
        rec == EmitRec(t, handlers, patcher, "INFO", <<>>, get_service_context(t))
        acc == EmitAcc(t, handlers, patcher, "INFO", <<>>, get_service_context(t))
    IN
    /\ run.cfg.pc = "log"
    /\ EmitCtx(t, handlers, patcher, "INFO")
    /\ setup_done' = TRUE
    /\ run' = [run EXCEPT !.cfg = IdleCfg]
    /\ last' = [Op("setup_logging", t, "ok") EXCEPT
                  !.arg = run.cfg.arg, !.level = run.cfg.level,
                  !.console = run.cfg.console, !.dated = TRUE,
                  !.sent = Sent("INFO", <<>>), !.rec = rec, !.acc = acc]
    /\ UNCHANGED <<sinkVars, service_context, started, files>>

\* register_log_sink up to its check of _log_config["initialized"].
BeginRegister(t, name, filter_key, level) ==
    LET filter == IF filter_key # "" THEN KeyFilter(filter_key) ELSE NoFilter
    IN
    /\ t \in started
    /\ run.cfg.pc = "idle"
    /\ ~ (run.emit.pc # "idle" /\ run.emit.task = t)
    /\ IF NotInitialized(log_config)
       THEN /\ last' = Op("register_log_sink", t, "RuntimeError")
            /\ UNCHANGED run
       ELSE /\ Cardinality(CustomSinks(handlers)) < MaxCustom
            /\ run' = [run EXCEPT !.cfg =
                         [IdleCfg EXCEPT
                            !.pc = "reg_add", !.op = "register_log_sink", !.task = t,
                            !.old = handlers,
                            !.target = <<FileSink(log_config.log_dir, name, "custom", TRUE,
                                                  LevelNo(level), filter, "default_format",
                                                  log_config.rotation,
                                                  log_config.retention_days, TRUE)>>]]
            /\ last' = Op("register_log_sink", t, "begin")
    /\ UNCHANGED <<sinkVars, ctxVars, setup_done, files>>

\* logger.add(...) of register_log_sink
StepRegAdd ==
    /\ run.cfg.pc = "reg_add"
    /\ handlers' = Append(handlers, run.cfg.target[1])
    /\ run' = [run EXCEPT !.cfg.pc = "reg_log"]
    /\ last' = Running(run.cfg.task, "add")
    /\ UNCHANGED <<patcher, log_config, ctxVars, setup_done, files>>

\* logger.debug("... registered ...") and return.
StepRegLog ==
    LET t   == run.cfg.task
        rec == EmitRec(t, handlers, patcher, "DEBUG", <<>>, get_service_context(t))
        acc == EmitAcc(t, handlers, patcher, "DEBUG", <<>>, get_service_context(t))
    IN
    /\ run.cfg.pc = "reg_log"
    /\ EmitCtx(t, handlers, patcher, "DEBUG")
    /\ run' = [run EXCEPT !.cfg = IdleCfg]
    /\ last' = [Op("register_log_sink", t, "ok") EXCEPT
                  !.sent = Sent("DEBUG", <<>>), !.rec = rec, !.acc = acc]
    /\ UNCHANGED <<sinkVars, service_context, started, setup_done, files>>

\* A log call by another thread, first part: without a handler, or below the
\* lowest handler level, the record is dropped at once.
LogCheck(t, lvl, bound) ==
    /\ t \in started
    /\ run.emit.pc = "idle"
    /\ ~ (run.cfg.pc # "idle" /\ run.cfg.task = t)
    /\ IF Reaches(handlers, lvl)
       THEN /\ run' = [run EXCEPT !.emit = [pc |-> "patch", task |-> t,
                                            sent |-> Sent(lvl, bound), extra |-> bound]]
            /\ last' = [Op("log", t, "check") EXCEPT !.sent = Sent(lvl, bound)]
       ELSE /\ last' = [Op("log", t, "ok") EXCEPT !.sent = Sent(lvl, bound)]
            /\ UNCHANGED run
    /\ UNCHANGED <<sinkVars, ctxVars, setup_done, files>>

\* Second part: the patcher configured at this moment, if any, is applied.
LogPatch ==
    LET t == run.emit.task
    IN
    /\ run.emit.pc = "patch"
    /\ IF patcher = "stamp"
       THEN /\ TraceIdFetched(t)
            /\ run' = [run EXCEPT !.emit.pc = "dispatch",
                                  !.emit.extra = Stamp(@, TraceIdRead(t),
                                                       get_service_context(t))]
       ELSE /\ run' = [run EXCEPT !.emit.pc = "dispatch"]
            /\ UNCHANGED <<trace_id, uuid_count>>
    /\ last' = [Op("log", t, "patch") EXCEPT !.sent = run.emit.sent]
    /\ UNCHANGED <<sinkVars, service_context, started, setup_done, files>>

\* {extra[trace_id]} is in every format, {extra[service]} in the console's.
Formattable(h, rec) ==
    /\ "trace_id" \in DOMAIN rec.extra
    /\ h.sink = "console" => "service" \in DOMAIN rec.extra

\* Third part: the record goes to each handler of the table as it is now.
LogDispatch ==
    LET t   == run.emit.task
        rec == [level |-> run.emit.sent.level, no |-> LevelNo(run.emit.sent.level),
                bound |-> run.emit.sent.bound, extra |-> run.emit.extra]
        acc == Accepting(handlers, rec)
    IN
    /\ run.emit.pc = "dispatch"
    /\ run' = [run EXCEPT !.emit = IdleEmit]
    /\ last' = [Op("log", t, IF \A i \in acc : Formattable(handlers[i], rec)
                             THEN "ok" ELSE "KeyError") EXCEPT
                  !.sent = run.emit.sent, !.rec = rec, !.acc = acc]
    /\ UNCHANGED <<sinkVars, ctxVars, setup_done, files>>

(***************************************************************************)
(* commands/init.py: the init command.  What it generates is decided by    *)
(* the top-level package (snake_case) and by whether Docker files are      *)
(* wanted; both are taken from the prompts in interactive mode and from    *)
(* the command line with -y.                                               *)
(***************************************************************************)
IsUpperCh(c) == IndexIn(c, UpperLetters) > 0
IsLowerCh(c) == IndexIn(c, LowerLetters) > 0
IsDigitCh(c) == c \in {"0", "1", "2", "3", "4", "5", "6", "7", "8", "9"}

\* The last position of the run of lower-case letters that starts at i.
RECURSIVE LowerRunEnd(_, _)
LowerRunEnd(s, i) ==
    IF i < Len(s) /\ IsLowerCh(s[i + 1]) THEN LowerRunEnd(s, i + 1) ELSE i

\* re.sub(r"(.)([A-Z][a-z]+)", r"\1_\2", name), scanning from position i.
RECURSIVE SubWords(_, _)
SubWords(s, i) ==
    IF i > Len(s) THEN <<>>
    ELSE IF /\ i + 2 <= Len(s)
            /\ s[i] # "\n"
            /\ IsUpperCh(s[i + 1])
            /\ IsLowerCh(s[i + 2])
         THEN <<s[i], "_">> \o SubSeq(s, i + 1, LowerRunEnd(s, i + 2))
              \o SubWords(s, LowerRunEnd(s, i + 2) + 1)
         ELSE <<s[i]>> \o SubWords(s, i + 1)

\* re.sub(r"([a-z0-9])([A-Z])", r"\1_\2", s1), scanning from position i.
RECURSIVE SubHumps(_, _)
SubHumps(s, i) ==
    IF i > Len(s) THEN <<>>
    ELSE IF /\ i + 1 <= Len(s)
            /\ (IsLowerCh(s[i]) \/ IsDigitCh(s[i]))
            /\ IsUpperCh(s[i + 1])
         THEN <<s[i], "_", s[i + 1]>> \o SubHumps(s, i + 2)
         ELSE <<s[i]>> \o SubHumps(s, i + 1)

\* str.replace("-", "_")
Underscored(s) == [i \in 1..Len(s) |-> IF s[i] = "-" THEN "_" ELSE s[i]]

_to_snake_case(name) == Underscored(Lower(SubHumps(SubWords(name, 1), 1)))

\* _to_snake_case(x) if x else None
SnakeOrNone(x) == IF Truthy(x) THEN Str(_to_snake_case(x.chars)) ELSE None_

\* config["package_name"] of _collect_interactive_config
PromptedPackage(package_input) ==
    IF Strip(package_input) = <<".">> THEN None_
    ELSE IF Strip(package_input) = <<>> THEN None_ ELSE Str(Strip(package_input))

\* package_name_snake of init
PackageUsed(cmd) ==
    IF ~ cmd.no_interactive
    THEN SnakeOrNone(PromptedPackage(cmd.package_input))
    ELSE SnakeOrNone(cmd.package_name)

\* with_docker of init after the mode branch
DockerUsed(cmd) ==
    IF ~ cmd.no_interactive THEN cmd.docker_answer ELSE cmd.with_docker

\* One run of the init command.
InitCommand(cmd) ==
    /\ last' = IF ~ cmd.has_pyproject
               THEN [Op("init", 1, "Exit(1)") EXCEPT !.cmd = cmd]
               ELSE IF ~ cmd.no_interactive /\ ~ cmd.confirmed
               THEN [Op("init", 1, "Exit(0)") EXCEPT !.cmd = cmd]
               ELSE [Op("init", 1, "ok") EXCEPT
                       !.cmd = cmd,
                       !.scaffold = [package   |-> PackageUsed(cmd),
                                     config_py |-> PackageUsed(cmd),
                                     saved     |-> PackageUsed(cmd),
                                     docker    |-> DockerUsed(cmd)]]
    /\ UNCHANGED <<sinkVars, ctxVars, setup_done, files, run>>

(***************************************************************************)
(* The state after the module is imported: logger.remove() has run, no     *)
(* patcher is configured, and only the importing context exists.           *)
(***************************************************************************)
Init ==
    /\ handlers = <<>>
    /\ patcher = "none"
    /\ log_config = DefaultConfig
    /\ service_context = [t \in Tasks |-> Unset]
    /\ trace_id = [t \in Tasks |-> NoTrace]
    /\ started = {1}
    /\ uuid_count = 0
    /\ setup_done = FALSE
    /\ files = Unwatched
    /\ run = Idle
    /\ last = Op("import", 1, "ok")

(***************************************************************************)
(* The inputs the operations are called with.                              *)
(***************************************************************************)
Info  == <<"i","n","f","o">>
Debug == <<"D","E","B","U","G">>
Error == <<"E","r","r","o","r">>
Warn  == <<"w","a","r","n">>       \* not a loguru level (WARNING is)
Critical == <<"c","r","i","t","i","c","a","l">>

EnumArgs    == {EnumArg(API), EnumArg(SCHEDULER), EnumArg(WORKER)}
ServiceArgs == {EnumArg(API), StrArg(Chars_scheduler), StrArg(Chars_worker),
                StrArg(Chars_app)}

EmitLevels == {"DEBUG", "INFO", "WARNING", "ERROR", "CRITICAL"}

Access(v) == [k \in {"access"} |-> v]
BoundExtras ==
    { <<>>, Access(TRUE), Access(FALSE),
      [k \in {"service", "trace_id"} |-> IF k = "service" THEN WORKER ELSE <<"id", 0>>] }

TraceIds(t) == {NoTrace, <<"id", t>>}

(***************************************************************************)
(* Spec: the importing context configures the sinks, registers the access  *)
(* sink, switches its service context and logs; every record is followed   *)
(* through the patcher and the filters.                                    *)
(***************************************************************************)
Next ==
    \/ \E a \in EnumArgs : SetServiceContext(1, a)
    \/ GetTraceId(1)
    \/ \E id \in TraceIds(1) : SetTraceId(1, id)
    \/ \E lvl \in EmitLevels, b \in BoundExtras : Emit(1, lvl, b)
    \/ \E l \in {Info, Debug, Error, Warn}, a \in EnumArgs :
          Setup(1, l, "", a, TRUE, TRUE, TRUE)
    \/ Register(1, "access", "access", "INFO")
    \/ Register(1, "audit", "", "ERROR")

Spec == Init /\ [][Next]_vars

(***************************************************************************)
(* SpecSinks: the calls that change the sink table, with every parameter   *)
(* of setup_logging that decides which sinks exist.                        *)
(***************************************************************************)
NextSinks ==
    \/ \E l \in {Info, Warn}, d \in {"", "/var/log/app"}, a \in ServiceArgs,
          r \in BOOLEAN, c \in BOOLEAN, ok \in BOOLEAN : Setup(1, l, d, a, r, c, ok)
    \/ \E k \in {"", "access"} : Register(1, "access", k, "INFO")
    \/ Emit(1, "INFO", Access(TRUE))

SpecSinks == Init /\ [][NextSinks]_vars

(***************************************************************************)
(* SpecCtx: several execution contexts use the context store at once.      *)
(* Contexts are created in the order of their numbers, and the importing   *)
(* context is the one that calls setup_logging.                            *)
(***************************************************************************)
NextTask == Cardinality(started) + 1

NextCtx ==
    \/ \E p \in Tasks, copies \in BOOLEAN : Spawn(p, NextTask, copies)
    \/ \E t \in Tasks, a \in {EnumArg(SCHEDULER), EnumArg(WORKER)} :
          SetServiceContext(t, a)
    \/ \E t \in Tasks : GetTraceId(t)
    \/ \E t \in Tasks : \E id \in TraceIds(t) : SetTraceId(t, id)
    \/ \E t \in Tasks : Emit(t, "INFO", <<>>)
    \/ Setup(1, Info, "", StrArg(Chars_worker), TRUE, TRUE, TRUE)

SpecCtx == Init /\ [][NextCtx]_vars

(***************************************************************************)
(* SpecFiles: the log directory is followed from an empty state.  The main *)
(* context configures and registers; it and one more context (a task that  *)
(* copies its creator's context, or a thread that starts from an empty     *)
(* one) log; the writer threads write when they are scheduled.             *)
(***************************************************************************)
\* Every line there is: written (in a file) or still queued (at a sink).
LinePlaces ==
    {<<"file", p, k>> : p \in DOMAIN files.at, k \in 1..MaxLines}
    \cup {<<"queue", i, k>> : i \in DOMAIN files.queue, k \in 1..MaxLines}

HasLine(x) ==
    IF x[1] = "file" THEN x[3] <= Len(files.at[x[2]]) ELSE x[3] <= Len(files.queue[x[2]])

LineAt(x) == IF x[1] = "file" THEN files.at[x[2]][x[3]] ELSE files.queue[x[2]][x[3]]

Lines == {x \in LinePlaces : HasLine(x)}

Room == Cardinality(Lines) < MaxLines

InitFiles ==
    /\ handlers = <<>>
    /\ patcher = "none"
    /\ log_config = DefaultConfig
    /\ service_context = [t \in Tasks |-> Unset]
    /\ trace_id = [t \in Tasks |-> NoTrace]
    /\ started = {1}
    /\ uuid_count = 0
    /\ setup_done = FALSE
    /\ files = Watched
    /\ run = Idle
    /\ last = Op("import", 1, "ok")

NextFiles ==
    \/ \E p \in Tasks, copies \in BOOLEAN : Spawn(p, NextTask, copies)
    \/ \E a \in {EnumArg(API), EnumArg(WORKER)}, c \in BOOLEAN :
          Room /\ Setup(1, Info, "", a, TRUE, c, TRUE)
    \/ Room /\ Register(1, "access", "access", "INFO")
    \/ \E t \in Tasks, lvl \in {"INFO", "ERROR"}, b \in {<<>>, Access(TRUE)} :
          Room /\ Emit(t, lvl, b)
    \/ \E i \in 1..Len(handlers) : WriterStep(i)

SpecFiles == InitFiles /\ [][NextFiles]_vars

(***************************************************************************)
(* SpecDeco: calls of functions wrapped by log_performance and             *)
(* log_exceptions, before and after the sinks are configured.              *)
(***************************************************************************)
Decorators == {"log_performance", "log_exceptions"}
Outcomes   == {"return", "Exception", "BaseException"}

NextDeco ==
    \/ \E d \in Decorators, co \in BOOLEAN, did \in Outcomes, slow \in BOOLEAN :
          Wrapped(1, d, co, did, slow)
    \/ \E l \in {Info, Debug, Error}, a \in {EnumArg(API), EnumArg(WORKER)} :
          Setup(1, l, "", a, TRUE, TRUE, TRUE)
    \/ \E id \in TraceIds(1) : SetTraceId(1, id)

SpecDeco == Init /\ [][NextDeco]_vars

(***************************************************************************)
(* SpecRace: the main thread runs setup_logging and register_log_sink      *)
(* statement by statement while other threads log.                         *)
(***************************************************************************)
NextRace ==
    \/ \E copies \in BOOLEAN : Spawn(1, NextTask, copies)
    \/ \E l \in {Info, Warn}, a \in {EnumArg(API), EnumArg(WORKER)}, c \in BOOLEAN :
          BeginSetup(1, l, a, c)
    \/ StepRemove
    \/ StepConfig
    \/ StepContext
    \/ StepPatcher
    \/ StepAdd
    \/ StepLog
    \/ BeginRegister(1, "audit", "", "INFO")
    \/ StepRegAdd
    \/ StepRegLog
    \/ \E t \in Tasks \ {1}, lvl \in {"INFO", "ERROR"} : LogCheck(t, lvl, <<>>)
    \/ LogPatch
    \/ LogDispatch

SpecRace == Init /\ [][NextRace]_vars

(***************************************************************************)
(* SpecTiers: setup_logging at levels below, at and above ERROR; the       *)
(* caller switches its service context and logs at every standard level.   *)
(***************************************************************************)
NextTiers ==
    \/ \E a \in EnumArgs : SetServiceContext(1, a)
    \/ \E lvl \in EmitLevels, b \in {<<>>, Access(TRUE), Access(FALSE)} : Emit(1, lvl, b)
    \/ \E l \in {Debug, Info, Error, Critical}, a \in EnumArgs, c \in BOOLEAN :
          Setup(1, l, "", a, TRUE, c, TRUE)

SpecTiers == Init /\ [][NextTiers]_vars

(***************************************************************************)
(* SpecInit: runs of the init command over command lines and answers.      *)
(***************************************************************************)
PackageArgs ==
    { None_,
      Str(<<"m","y","_","p","a","c","k","a","g","e">>),
      Str(<<"M","y","P","a","c","k","a","g","e">>),
      Str(<<"m","y","-","A","P","I","S","e","r","v","e","r","2","X">>) }

PackageInputs ==
    { <<>>, <<".">>, <<"m","y","_","s","e","r","v","i","c","e">>,
      <<" ","M","y","P","a","c","k","a","g","e"," ">> }

Commands ==
    [package_name : PackageArgs, no_interactive : BOOLEAN, with_docker : BOOLEAN,
     package_input : PackageInputs, docker_answer : BOOLEAN, confirmed : BOOLEAN,
     has_pyproject : BOOLEAN]

NextInit == \E cmd \in Commands : InitCommand(cmd)

SpecInit == Init /\ [][NextInit]_vars

(***************************************************************************)
(* SpecNorm: _to_service_context on its own.  The argument is drawn in the *)
(* initial state; set_service_context or setup_logging is then called with *)
(* it once.                                                                *)
(***************************************************************************)
\* Each word with the member it must normalise to.
NormWords ==
    << <<Chars_api, API>>,
       << <<"A","P","I">>, API>>,
       << <<"A","p","i">>, API>>,
       <<Chars_app, API>>,
       << <<"A","P","P">>, API>>,
       << <<"a","P","p">>, API>>,
       <<Chars_scheduler, SCHEDULER>>,
       << <<"S","C","H","E","D","U","L","E","R">>, SCHEDULER>>,
       << <<"S","c","h","e","d","u","l","e","r">>, SCHEDULER>>,
       <<Chars_worker, WORKER>>,
       << <<"W","O","R","K","E","R">>, WORKER>>,
       << <<"w","o","r","K","e","r">>, WORKER>>,
       << <<>>, API>>,
       << <<"a","p","i","s">>, API>>,
       << <<"w","o","r","k"," ","e","r">>, API>>,
       << <<"j","o","b">>, API>>,
       << <<"s","c","h","e","d","u","l","e","r","s">>, API>> >>

PadChars == {" ", "\t"}

\* Every run of at most n padding characters.
Pads(n) == UNION {[1..k -> PadChars] : k \in 0..n}

Padded(i, l, r) == StrArg(l \o NormWords[i][1] \o r)

NormInputs ==
    EnumArgs \cup
    {Padded(i, l, r) : i \in 1..Len(NormWords), l \in Pads(MaxPad), r \in Pads(MaxPad)}

InitNorm ==
    /\ handlers = <<>>
    /\ patcher = "none"
    /\ log_config = DefaultConfig
    /\ service_context = [t \in Tasks |-> Unset]
    /\ trace_id = [t \in Tasks |-> NoTrace]
    /\ started = {1}
    /\ uuid_count = 0
    /\ setup_done = FALSE
    /\ files = Unwatched
    /\ run = Idle
    /\ \E a \in NormInputs : last = [Op("pending", 1, "ok") EXCEPT !.arg = a]

NextNorm ==
    \/ last.op = "pending" /\ SetServiceContext(1, last.arg)
    \/ last.op = "pending" /\ Setup(1, Info, "", last.arg, TRUE, TRUE, TRUE)

SpecNorm == InitNorm /\ [][NextNorm]_vars

(***************************************************************************)
(* What the properties below read off a state.                             *)
(***************************************************************************)
SetupOk     == last.op = "setup_logging" /\ last.res = "ok"
Emitted     == last.rec # NoRecord
FileSinks   == {i \in 1..Len(handlers) : handlers[i].sink = "file"}
ConsoleSinks == {i \in 1..Len(handlers) : handlers[i].sink = "console"}
TierSinks(tier, c) ==
    {i \in FileSinks : handlers[i].tier = tier /\ handlers[i].prefix = c}
SetupFiles  == {i \in FileSinks : handlers[i].tier \in {"info", "error"}}
Marked(key) == ExtraGet(last.rec.bound, key, FALSE) = TRUE

\* The member each argument of SpecSinks and Spec stands for.
MemberOf(arg) ==
    IF arg.is_enum THEN arg.member
    ELSE IF arg.chars = Chars_scheduler THEN SCHEDULER
    ELSE IF arg.chars = Chars_worker THEN WORKER
    ELSE API

\* The contexts a setup call with this service type is to provision.
Provisioned(arg) ==
    IF MemberOf(arg) = API THEN {API, SCHEDULER} ELSE {MemberOf(arg)}

(***************************************************************************)
(* C1.  After any number of successful setup calls, the sink table is that *)
(* of a single call: each configured context has exactly one INFO-tier and *)
(* one ERROR-tier file sink, there is at most one console sink, and        *)
(* nothing installed before the call is left.                              *)
(***************************************************************************)
C1_SetupIdempotent ==
    SetupOk =>
        /\ \A c \in Provisioned(last.arg) :
              /\ Cardinality(TierSinks("info", c)) = 1
              /\ Cardinality(TierSinks("error", c)) = 1
        /\ Cardinality(ConsoleSinks) <= 1
        /\ Len(handlers) = Cardinality(ConsoleSinks)
                           + 2 * Cardinality(Provisioned(last.arg))

\* A second consecutive call with the same parameters has returned, in API mode.
C1_Witness ==
    /\ SetupOk
    /\ last.repeat >= 2
    /\ MemberOf(last.arg) = API
    /\ Len(handlers) = 5

(***************************************************************************)
(* C2.  Whatever the interleaving, each context reads back the service     *)
(* context and the trace id it set itself: a set is visible to its caller  *)
(* at once, and no step of one context changes the values of another.      *)
(***************************************************************************)
C2_OwnValueRead ==
    /\ last.op = "set_service_context" =>
          get_service_context(last.task) = MemberOf(last.arg)
    /\ (last.op = "set_trace_id" /\ last.val # NoTrace) =>
          TraceIdRead(last.task) = last.val

C2_OthersUntouched ==
    \A u \in started :
        u # last'.task =>
            /\ service_context'[u] = service_context[u]
            /\ trace_id'[u] = trace_id[u]

\* C2: a context reads back its own values and no other context changes them.
C2_ContextIsolation == [] C2_OwnValueRead /\ [][C2_OthersUntouched]_vars

\* Two contexts hold different values of both variables at the same time.
C2_Witness ==
    /\ {1, 2} \subseteq started
    /\ service_context[1] = WORKER /\ service_context[2] = SCHEDULER
    /\ trace_id[1] = <<"id", 1>> /\ trace_id[2] = <<"id", 2>>
    /\ last.op = "set_trace_id" /\ last.task = 2

(***************************************************************************)
(* C3 as stated.  register_log_sink fails with the "not initialized" error *)
(* whenever no setup_logging call has completed, and never once one has.   *)
(***************************************************************************)
C3_AsStated ==
    last.op = "register_log_sink" =>
        (last.res = "RuntimeError" <=> ~ setup_done)

(***************************************************************************)
(* C3 as amended.  register_log_sink fails with the "not initialized"      *)
(* error exactly when no setup_logging call has yet stored its             *)
(* configuration (a call that got past directory creation has, also when   *)
(* it then failed while adding sinks); the failing call installs no sink   *)
(* and changes no configuration; once setup_logging has completed, it      *)
(* never fails with that error.                                            *)
(***************************************************************************)
C3_RegisterState ==
    /\ last.op = "register_log_sink" =>
          (last.res = "RuntimeError" <=> ~ log_config.initialized)
    /\ (last.op = "setup_logging" /\ last.res \in {"ok", "ValueError"}) =>
          log_config.initialized
    /\ setup_done => log_config.initialized
    /\ ~ log_config.initialized => handlers = <<>> /\ log_config = DefaultConfig

C3_RefusalChangesNothing ==
    (last'.op = "register_log_sink" /\ last'.res = "RuntimeError")
        => UNCHANGED <<handlers, patcher, log_config>>

\* C3 as amended: the refusal follows the stored flag and changes nothing.
C3_Amended == [] C3_RegisterState /\ [][C3_RefusalChangesNothing]_vars

\* register_log_sink succeeded although every setup call so far has failed.
C3_Witness ==
    /\ last.op = "register_log_sink" /\ last.res = "ok"
    /\ ~ setup_done
    /\ Len(handlers) = 1

AccessRegistered ==
    \E i \in FileSinks : handlers[i].tier = "custom"
                         /\ handlers[i].filter = KeyFilter("access")

AccessCall == last.op = "log" /\ Emitted /\ setup_done /\ AccessRegistered
              /\ Marked("access")

(***************************************************************************)
(* C4 as stated.  Once setup and register_log_sink("access",               *)
(* filter_key="access") have run, a record bound with access=True is, at   *)
(* any level, accepted by no INFO-tier and no ERROR-tier file sink.        *)
(***************************************************************************)
C4_AsStated ==
    AccessCall => \A i \in last.acc : i \notin SetupFiles

(***************************************************************************)
(* C4 as amended.  Such a record is accepted by no INFO-tier file sink at  *)
(* any level, and by no ERROR-tier file sink when its level is below       *)
(* ERROR; at level ERROR or CRITICAL it is also written to the ERROR-tier  *)
(* file of the context equal to its stamped service value, whose filter    *)
(* has no access clause.  The access sink accepts it from its own level up.*)
(***************************************************************************)
C4_Amended ==
    AccessCall =>
        /\ \A i \in last.acc : handlers[i].tier # "info"
        /\ \A i \in SetupFiles :
              i \in last.acc <=>
                  /\ handlers[i].tier = "error"
                  /\ handlers[i].prefix = last.rec.extra["service"]
                  /\ last.rec.level \in {"ERROR", "CRITICAL"}
        /\ \A i \in FileSinks :
              handlers[i].filter = KeyFilter("access") =>
                  (i \in last.acc <=> last.rec.no >= handlers[i].levelno)

\* An access record at level ERROR went to the access file and to an error file.
C4_Witness ==
    /\ AccessCall
    /\ last.rec.level = "ERROR"
    /\ \E i \in last.acc : handlers[i].tier = "error"
    /\ \E i \in last.acc : handlers[i].filter = KeyFilter("access")

(***************************************************************************)
(* C5.  A record at level ERROR or CRITICAL is accepted by no INFO-tier    *)
(* file sink, and by every ERROR-tier file sink whose context is the       *)
(* record's stamped service value.                                         *)
(***************************************************************************)
C5_ErrorTier ==
    (Emitted /\ last.rec.level \in {"ERROR", "CRITICAL"}) =>
        /\ \A i \in last.acc : handlers[i].tier # "info"
        /\ \A i \in FileSinks :
              (handlers[i].tier = "error"
               /\ handlers[i].prefix = last.rec.extra["service"]) => i \in last.acc

\* A CRITICAL record of the scheduler context reached scheduler's error file
\* while an INFO-tier sink of that context was installed.
C5_Witness ==
    /\ last.op = "log" /\ Emitted
    /\ last.rec.level = "CRITICAL"
    /\ last.rec.extra["service"] = SCHEDULER
    /\ TierSinks("info", SCHEDULER) # {}
    /\ \E i \in last.acc : handlers[i].tier = "error" /\ handlers[i].prefix = SCHEDULER

(***************************************************************************)
(* C6.  A file sink installed by setup for context c accepts a record only *)
(* if the record's stamped service value is c, and its filter holds the    *)
(* context its file is named after; a record of that context below ERROR   *)
(* and not marked access is accepted by c's INFO-tier sink from the        *)
(* sink's level up.                                                        *)
(***************************************************************************)
C6_ContextFilter ==
    /\ \A i \in SetupFiles : handlers[i].filter.c = handlers[i].prefix
    /\ Emitted =>
          /\ \A i \in last.acc \cap SetupFiles :
                handlers[i].prefix = last.rec.extra["service"]
          /\ \A i \in SetupFiles :
                (/\ handlers[i].tier = "info"
                 /\ handlers[i].prefix = last.rec.extra["service"]
                 /\ last.rec.no >= handlers[i].levelno
                 /\ last.rec.level \notin {"ERROR", "CRITICAL"}
                 /\ ~ Marked("access")) => i \in last.acc

\* A scheduler record went to scheduler's info file and not to api's.
C6_Witness ==
    /\ last.op = "log" /\ Emitted
    /\ last.rec.extra["service"] = SCHEDULER
    /\ \E i \in last.acc : handlers[i].tier = "info" /\ handlers[i].prefix = SCHEDULER
    /\ \E i \in TierSinks("info", API) : i \notin last.acc

(***************************************************************************)
(* C7.  Every record that reaches the sink filters was stamped by the      *)
(* patcher: its extra attributes are those the caller bound plus exactly   *)
(* trace_id and service, which hold the caller's current trace id (never   *)
(* empty) and the value of its current service context, whatever the       *)
(* caller bound under those names; everything else is as it was bound.     *)
(***************************************************************************)
C7_Stamped ==
    Emitted =>
        /\ patcher = "stamp"
        /\ DOMAIN last.rec.extra = DOMAIN last.rec.bound \cup {"trace_id", "service"}
        /\ last.rec.extra["trace_id"] = trace_id[last.task]
        /\ last.rec.extra["trace_id"] # NoTrace
        /\ last.rec.extra["service"] = get_service_context(last.task)
        /\ last.rec.extra["service"] \in ServiceContext
        /\ \A k \in DOMAIN last.rec.bound \ {"trace_id", "service"} :
              last.rec.extra[k] = last.rec.bound[k]

\* The caller bound both names itself; the record carries the scope's values.
C7_Witness ==
    /\ last.op = "log" /\ Emitted
    /\ "service" \in DOMAIN last.rec.bound
    /\ last.rec.bound["service"] = WORKER
    /\ last.rec.extra["service"] = SCHEDULER
    /\ last.rec.extra["trace_id"] = Uuid(1)

(***************************************************************************)
(* C8 as stated.  Within one scope a non-empty trace id is immutable: no   *)
(* step changes it.                                                        *)
(***************************************************************************)
C8_TraceKept ==
    \A t \in Tasks :
        (t \in started /\ trace_id[t] # NoTrace) => trace_id'[t] = trace_id[t]

\* C8 as stated: no step changes a non-empty trace id of a scope.
C8_AsStated == [][C8_TraceKept]_vars

(***************************************************************************)
(* C8 as amended.  Within one scope a non-empty trace id is changed by no  *)
(* get_trace_id and by no log emission, whoever makes them: get_trace_id   *)
(* returns it every time.  Only a set_trace_id call made in that scope     *)
(* replaces it, unconditionally.                                           *)
(***************************************************************************)
C8_ChangedOnlyBySet ==
    \A t \in Tasks :
        (/\ t \in started
         /\ trace_id[t] # NoTrace
         /\ ~ (last'.op = "set_trace_id" /\ last'.task = t)) => trace_id'[t] = trace_id[t]

C8_GetReturnsIt ==
    last.op = "get_trace_id" =>
        /\ last.val = trace_id[last.task]
        /\ last.val # NoTrace

\* C8 as amended: only set_trace_id of the same scope changes a non-empty trace id.
C8_Amended == [] C8_GetReturnsIt /\ [][C8_ChangedOnlyBySet]_vars

\* get_trace_id returned the id the scope had set, after another scope drew one.
C8_Witness ==
    /\ last.op = "get_trace_id"
    /\ last.task = 1
    /\ last.val = <<"id", 1>>
    /\ trace_id[2] = Uuid(1)

(***************************************************************************)
(* C9.  set_service_context and setup_logging accept every service-context *)
(* argument: a member is kept, a string is trimmed and lower-cased, "app"  *)
(* and every unrecognised string give api, and the three names give their  *)
(* member; get_service_context is always one of the three members.         *)
(***************************************************************************)
\* The member the argument was built to normalise to.
C9_Expected(arg) ==
    IF arg.is_enum THEN arg.member
    ELSE LET i == CHOOSE i \in 1..Len(NormWords) :
                     \E l \in Pads(MaxPad), r \in Pads(MaxPad) : arg = Padded(i, l, r)
         IN  NormWords[i][2]

C9_Normalised ==
    /\ \A t \in Tasks : get_service_context(t) \in ServiceContext
    /\ last.op \in {"set_service_context", "setup_logging"} =>
          /\ last.res = "ok"
          /\ service_context[last.task] = C9_Expected(last.arg)
          /\ get_service_context(last.task) = C9_Expected(last.arg)

\* A padded, upper-case alias was given to setup_logging and api came out.
C9_Witness ==
    /\ last.op = "setup_logging"
    /\ last.arg = StrArg(<<" ", "A", "P", "P", "\t">>)
    /\ get_service_context(1) = API
    /\ TierSinks("info", SCHEDULER) # {}

(***************************************************************************)
(* C10.  A successful setup(service_type = s, console_enabled = b) leaves  *)
(* exactly: one console sink if and only if b; one INFO-tier and one       *)
(* ERROR-tier file sink for s and, when and only when s normalises to api, *)
(* for scheduler; and no other sink.                                       *)
(***************************************************************************)
C10_SinkSet ==
    SetupOk =>
        /\ Cardinality(ConsoleSinks) = IF last.console THEN 1 ELSE 0
        /\ \A c \in ServiceContext :
              /\ Cardinality(TierSinks("info", c))
                    = IF c \in Provisioned(last.arg) THEN 1 ELSE 0
              /\ Cardinality(TierSinks("error", c))
                    = IF c \in Provisioned(last.arg) THEN 1 ELSE 0
        /\ \A i \in 1..Len(handlers) : i \in ConsoleSinks \cup SetupFiles
        /\ \A i \in SetupFiles : handlers[i].prefix \in ServiceContext

\* The legacy alias without console: the four files of api and scheduler.
C10_Witness ==
    /\ SetupOk
    /\ last.arg = StrArg(Chars_app)
    /\ ~ last.console
    /\ Len(handlers) = 4
    /\ TierSinks("error", SCHEDULER) # {}
    /\ TierSinks("info", API) # {}

(***************************************************************************)
(* C11.  A sink registered with a filter key accepts a record if and only  *)
(* if the caller bound that key with a true value and the record's level   *)
(* is at least the sink's level; a record without the mark is rejected at  *)
(* every level and for every service value.                                *)
(***************************************************************************)
KeySinks == {i \in FileSinks : handlers[i].filter.kind = "key"}

C11_KeyFilter ==
    last.sent # NoCall =>
        \A i \in KeySinks :
            i \in last.acc <=>
                /\ ExtraGet(last.sent.bound, handlers[i].filter.key, FALSE) = TRUE
                /\ LevelNo(last.sent.level) >= handlers[i].levelno

\* A CRITICAL record bound with access=False went to an error file, not to the access file.
C11_Witness ==
    /\ last.op = "log" /\ Emitted
    /\ last.sent = Sent("CRITICAL", Access(FALSE))
    /\ KeySinks # {}
    /\ KeySinks \cap last.acc = {}
    /\ \E i \in last.acc : handlers[i].tier = "error"

(***************************************************************************)
(* C12 as stated.  After setup(level="INFO", service_type="api") on an     *)
(* empty log directory and then a single log call, made with no context    *)
(* and no trace id set by the program, the api info file holds one line:   *)
(* that of the call, with a trace id generated for that call; the          *)
(* scheduler info file exists and is empty.                                *)
(***************************************************************************)
ApiInfo   == [dir |-> "logs", prefix |-> API, tier |-> "info", dated |-> TRUE]
SchedInfo == [dir |-> "logs", prefix |-> SCHEDULER, tier |-> "info", dated |-> TRUE]

LinesOf(msg) == {x \in Lines : LineAt(x).msg = msg}
Queued       == {i \in DOMAIN files.queue : files.queue[i] # <<>>}

\* One setup call (INFO, api) and then one log call at INFO have been made, and
\* every queue has been written out.
C12_Scenario ==
    /\ files.watched
    /\ files.setups = 1 /\ service_context[1] = API
    /\ files.logs = 1
    /\ last.op = "log" /\ last.sent = Sent("INFO", <<>>)
    /\ Queued = {}

C12_AsStated ==
    C12_Scenario =>
        /\ ApiInfo \in DOMAIN files.at
        /\ Len(files.at[ApiInfo]) = 1
        /\ files.at[ApiInfo][1].msg = "log"
        /\ \A x \in LinesOf("setup_logging") :
              LineAt(x).trace_id # files.at[ApiInfo][1].trace_id
        /\ SchedInfo \in DOMAIN files.at
        /\ files.at[SchedInfo] = <<>>

(***************************************************************************)
(* C12 as amended.  In that scenario the api info file holds two lines:    *)
(* first the completion message that setup logs itself, then the line of   *)
(* the call.  The call's line carries the caller's trace id, which was     *)
(* generated for that call only if the caller's context held none: the     *)
(* context that called setup already holds the id generated for setup's    *)
(* own message.  The scheduler info file exists and is empty.              *)
(***************************************************************************)
C12_Amended ==
    C12_Scenario =>
        /\ ApiInfo \in DOMAIN files.at
        /\ Len(files.at[ApiInfo]) = 2
        /\ files.at[ApiInfo][1].msg = "setup_logging"
        /\ files.at[ApiInfo][1].trace_id = trace_id[1]
        /\ files.at[ApiInfo][2].msg = "log"
        /\ files.at[ApiInfo][2].trace_id = trace_id[last.task]
        /\ files.at[ApiInfo][2].trace_id # NoTrace
        /\ last.task = 1 => files.at[ApiInfo][2].trace_id = files.at[ApiInfo][1].trace_id
        /\ SchedInfo \in DOMAIN files.at
        /\ files.at[SchedInfo] = <<>>

\* The call came from a thread with an empty context: its id is a new one.
C12_Witness ==
    /\ C12_Scenario
    /\ last.task = 2
    /\ service_context[2] = Unset
    /\ files.at[ApiInfo][2].trace_id = Uuid(2)
    /\ files.at[ApiInfo][1].trace_id = Uuid(1)

(***************************************************************************)
(* C13 as stated.  Once setup(service_type = s) has completed, every       *)
(* context that holds no service context of its own (it never called       *)
(* set_service_context and copied none) reads s, whether or not it derives *)
(* from the caller of setup, and its records go to the files of s.         *)
(***************************************************************************)
\* The service type of the setup whose sinks are installed.
C13_Service ==
    handlers[CHOOSE i \in SetupFiles : \A j \in SetupFiles : i <= j].prefix

C13_AsStated ==
    (setup_done /\ SetupFiles # {}) =>
        /\ \A t \in started :
              service_context[t] = Unset => get_service_context(t) = C13_Service
        /\ (last.op = "log" /\ Emitted /\ service_context[last.task] = Unset) =>
              /\ last.rec.extra["service"] = C13_Service
              /\ \E i \in last.acc : handlers[i].tier = "info"
                                       /\ handlers[i].prefix = C13_Service

(***************************************************************************)
(* C14 as stated.  Every file sink is enqueued and opens its file lazily:  *)
(* starting from an empty directory, a log file exists only once a line    *)
(* has been written to it.                                                 *)
(***************************************************************************)
C14_AsStated ==
    files.watched =>
        /\ \A i \in FileSinks : handlers[i].enqueue
        /\ \A p \in DOMAIN files.at : files.at[p] # <<>>

(***************************************************************************)
(* C14 as amended.  Every file sink is enqueued.  A sink added by          *)
(* register_log_sink opens lazily: its file exists only once a line has    *)
(* been written to it.  The file sinks added by setup_logging are added    *)
(* without delay: their files exist from the moment setup has added them,  *)
(* with or without lines.                                                  *)
(***************************************************************************)
C14_Amended ==
    files.watched =>
        /\ \A i \in FileSinks : handlers[i].enqueue
        /\ \A i \in FileSinks : handlers[i].delay <=> handlers[i].tier = "custom"
        /\ \A p \in DOMAIN files.at : p.tier = "custom" => files.at[p] # <<>>
        /\ \A i \in SetupFiles : Path(handlers[i]) \in DOMAIN files.at

\* An access record is queued at the access sink, whose file does not exist
\* yet, while the empty files of setup's sinks do.
C14_Witness ==
    /\ files.watched
    /\ \E i \in Queued : /\ handlers[i].tier = "custom"
                         /\ Path(handlers[i]) \notin DOMAIN files.at
    /\ \E i \in SetupFiles : /\ Path(handlers[i]) \in DOMAIN files.at
                             /\ files.at[Path(handlers[i])] = <<>>

(***************************************************************************)
(* C15 as stated.  Every exception raised by a function wrapped by         *)
(* log_performance or log_exceptions is logged exactly once by the wrapper *)
(* and reaches the caller unchanged; on success the caller gets the        *)
(* function's result.                                                      *)
(***************************************************************************)
WrappedCall == last.op \in Decorators

C15_AsStated ==
    WrappedCall =>
        /\ last.did # "return" => Len(last.logs) = 1 /\ last.res = last.did
        /\ last.did = "return" => last.res = "return"

(***************************************************************************)
(* C15 as amended.  The wrappers are coroutines meant for coroutine        *)
(* functions.  An exception that is an instance of Exception is logged     *)
(* exactly once, at ERROR, and re-raised unchanged.  One that is not       *)
(* (asyncio.CancelledError, KeyboardInterrupt, SystemExit) is not caught:  *)
(* it reaches the caller unchanged and nothing is logged.  On success a    *)
(* coroutine function's result is returned, after one WARNING or DEBUG     *)
(* line from log_performance and none from log_exceptions.  A plain        *)
(* function that returns makes the await fail: the caller gets a TypeError *)
(* in place of the result, logged once at ERROR.  No error is swallowed.   *)
(***************************************************************************)
C15_Amended ==
    WrappedCall =>
        /\ last.did = "Exception" =>
              last.logs = <<"ERROR">> /\ last.res = "Exception"
        /\ last.did = "BaseException" =>
              last.logs = <<>> /\ last.res = "BaseException"
        /\ (last.did = "return" /\ last.res = "return") =>
              last.logs = IF last.op = "log_exceptions" THEN <<>>
                          ELSE <<last.sent.level>>
        /\ (last.did = "return" /\ last.res = "return") =>
              last.sent.level \in {"none", "WARNING", "DEBUG"}
        /\ (last.did = "return" /\ last.res # "return") =>
              last.res = "TypeError" /\ last.logs = <<"ERROR">>
        /\ last.did # "return" => last.res # "return"
        /\ last.logs # <<>> => last.sent = Sent(last.logs[1], <<>>)
        /\ (last.logs = <<"ERROR">> /\ handlers # <<>>) =>
              \E i \in last.acc : handlers[i].tier = "error"

\* An exception of a wrapped coroutine went to the error file and on to the caller.
C15_Witness ==
    /\ last.op = "log_exceptions"
    /\ last.did = "Exception" /\ last.res = "Exception"
    /\ last.logs = <<"ERROR">>
    /\ \E i \in last.acc : handlers[i].tier = "error" /\ handlers[i].prefix = WORKER

(***************************************************************************)
(* C16.  When creating the log directory fails, setup_logging raises the   *)
(* filesystem error and leaves the log system as it was: the sinks, the    *)
(* stored configuration with its initialized flag, the patcher and the     *)
(* service context (and trace id) of every context are unchanged.          *)
(***************************************************************************)
MakedirsFailed(op) == op.op = "setup_logging" /\ op.res = "OSError"

C16_Untouched ==
    MakedirsFailed(last') =>
        UNCHANGED <<handlers, patcher, log_config, service_context, trace_id,
                    setup_done, files>>

\* C16: a setup call that fails in os.makedirs changes nothing.
C16_MakedirsFailure == [][C16_Untouched]_vars

\* The directory could not be created while sinks, one of them registered
\* later than setup, were installed: they are all still there.
C16_Witness ==
    /\ MakedirsFailed(last)
    /\ log_config.initialized /\ patcher = "stamp"
    /\ CustomSinks(handlers) # {}
    /\ Len(handlers) = 6

(***************************************************************************)
(* C17.  While one thread runs setup_logging or register_log_sink          *)
(* statement by statement, a log call of another thread never fails: the   *)
(* handler table it is dispatched against is a complete one (during        *)
(* setup_logging what is left of the table before the call or the first    *)
(* sinks of the new one, never a mix; during register_log_sink the table   *)
(* before or after the added sink), and a record that a sink accepts       *)
(* carries both stamped fields, trace_id and service.                      *)
(***************************************************************************)
IsPrefix(s, full) == Len(s) <= Len(full) /\ s = SubSeq(full, 1, Len(s))
IsSuffix(s, full) ==
    Len(s) <= Len(full) /\ s = SubSeq(full, Len(full) - Len(s) + 1, Len(full))

TableComplete ==
    /\ run.cfg.op = "setup_logging" =>
          IF run.cfg.pc = "remove" THEN IsSuffix(handlers, run.cfg.old)
          ELSE IsPrefix(handlers, run.cfg.target)
    /\ run.cfg.op = "register_log_sink" =>
          handlers = IF run.cfg.pc = "reg_add" THEN run.cfg.old
                     ELSE run.cfg.old \o run.cfg.target

Dispatched == last.op = "log" /\ last.res \notin {"check", "patch"}

C17_EmissionDuringUpdate ==
    /\ TableComplete
    /\ last.op = "log" => last.res \in {"ok", "check", "patch"}
    /\ (Dispatched /\ last.acc # {}) =>
          /\ {"trace_id", "service"} \subseteq DOMAIN last.rec.extra
          /\ last.rec.extra["trace_id"] # NoTrace
          /\ last.rec.extra["service"] \in ServiceContext
          /\ last.acc = Accepting(handlers, last.rec)

\* A record of another thread was written by the console while setup_logging
\* was still adding its file sinks, none of them for the record's context yet.
C17_Witness ==
    /\ Dispatched /\ last.task = 2
    /\ run.cfg.op = "setup_logging" /\ run.cfg.pc = "add"
    /\ Len(handlers) = 1 /\ Len(run.cfg.target) = 5
    /\ last.acc = {1}
    /\ run.cfg.old # <<>>

(***************************************************************************)
(* C18 as stated.  When init is given a positional package name and goes   *)
(* on to generate, the directory structure, config.py and the saved        *)
(* [tool.aurimyth] package setting use that name in snake_case, in         *)
(* interactive mode as with -y; and --docker makes it generate the Docker  *)
(* files in both modes.                                                    *)
(***************************************************************************)
Generated == last.op = "init" /\ last.res = "ok"

C18_AsStated ==
    Generated =>
        /\ Truthy(last.cmd.package_name) =>
              /\ last.scaffold.package = Str(_to_snake_case(last.cmd.package_name.chars))
              /\ last.scaffold.config_py = last.scaffold.package
              /\ last.scaffold.saved = last.scaffold.package
        /\ last.cmd.with_docker => last.scaffold.docker

(***************************************************************************)
(* C19.  A setup_logging call that gets as far as logger.remove() leaves   *)
(* no sink of register_log_sink in the table and installs none; no call    *)
(* takes the configuration from initialized back to uninitialized; a       *)
(* custom sink enters the table only by a successful register_log_sink;    *)
(* and a record is accepted by a custom sink only while one registered     *)
(* since the last setup is in the table.  So after a re-run a marked       *)
(* record reaches the custom file again only once register_log_sink has    *)
(* been called again.                                                      *)
(***************************************************************************)
SetupRan(op) == op.op = "setup_logging" /\ op.res # "OSError"

C19_Step ==
    /\ SetupRan(last') => CustomSinks(handlers') = {}
    /\ log_config.initialized => log_config'.initialized
    /\ (CustomSinks(handlers') # {} /\ CustomSinks(handlers) = {})
          => (last'.op = "register_log_sink" /\ last'.res = "ok")
    /\ (last'.op = "log" /\ last'.acc \cap CustomSinks(handlers') # {})
          => CustomSinks(handlers) # {}

C19_RerunDropsCustomSinks == [][C19_Step]_vars

\* setup_logging has returned a second time; the access file, which only a
\* marked record through a registered sink creates, exists with its line, and
\* the table holds no custom sink any more.
C19_Witness ==
    /\ SetupOk
    /\ files.watched
    /\ files.setups = 2
    /\ \E p \in DOMAIN files.at : p.prefix = "access" /\ Len(files.at[p]) = 1
    /\ CustomSinks(handlers) = {}
    /\ log_config.initialized

(***************************************************************************)
(* C20 as stated.  After setup(level = L, service_type = s), a record at   *)
(* level L or above that is not marked access and whose stamped service is *)
(* provisioned is accepted by exactly one file sink of setup, the          *)
(* INFO-tier sink of its context below ERROR and the ERROR-tier sink of    *)
(* its context otherwise; a record below L, or of a service that is not    *)
(* provisioned, is accepted by no file sink of setup.                      *)
(***************************************************************************)
\* A log call was made while the sinks of a successful setup were installed.
AfterSetup == setup_done /\ SetupFiles # {} /\ last.sent # NoCall

\* L: the level setup_logging was called with, as its INFO-tier sinks hold it.
SetupLevel == handlers[CHOOSE i \in SetupFiles : handlers[i].tier = "info"].levelno

ProvisionedNow == {handlers[i].prefix : i \in SetupFiles}

\* The service the patcher stamps on the caller's records.
StampedService == get_service_context(last.task)

SentNo     == LevelNo(last.sent.level)
SentMarked == ExtraGet(last.sent.bound, "access", FALSE) = TRUE
SetupAcc   == last.acc \cap SetupFiles

C20_AsStated ==
    AfterSetup =>
        /\ (SentNo >= SetupLevel /\ ~ SentMarked /\ StampedService \in ProvisionedNow)
              => /\ Cardinality(SetupAcc) = 1
                 /\ SetupAcc = TierSinks(IF SentNo < LevelNo("ERROR") THEN "info"
                                         ELSE "error", StampedService)
        /\ (SentNo < SetupLevel \/ StampedService \notin ProvisionedNow)
              => SetupAcc = {}

(***************************************************************************)
(* C20, amended.  After setup(level = L, service_type = s), of the file    *)
(* sinks of setup: a record of a service that is not provisioned is        *)
(* accepted by none; a record at ERROR or CRITICAL of a provisioned        *)
(* service is accepted by exactly the ERROR-tier sink of its context,      *)
(* whatever L is and whether or not it is marked access; a record below    *)
(* ERROR is accepted by exactly the INFO-tier sink of its context when its *)
(* level is at least L and it is not marked access, and by none otherwise. *)
(***************************************************************************)
C20_Amended ==
    AfterSetup =>
        IF StampedService \notin ProvisionedNow THEN SetupAcc = {}
        ELSE IF SentNo >= LevelNo("ERROR")
        THEN /\ Cardinality(SetupAcc) = 1
             /\ SetupAcc = TierSinks("error", StampedService)
        ELSE IF SentNo >= SetupLevel /\ ~ SentMarked
        THEN /\ Cardinality(SetupAcc) = 1
             /\ SetupAcc = TierSinks("info", StampedService)
        ELSE SetupAcc = {}

\* After setup at CRITICAL an ERROR record, below L, is in its context's error
\* file all the same.
C20_Witness ==
    /\ AfterSetup
    /\ last.op = "log"
    /\ SetupLevel = LevelNo("CRITICAL")
    /\ last.sent.level = "ERROR"
    /\ StampedService \in ProvisionedNow
    /\ SetupAcc = TierSinks("error", StampedService)
    /\ Cardinality(SetupAcc) = 1

====
